---- MODULE Spec2Model ----
(***************************************************************************)
(* Model of src/client.rs: the PostHog capture client.                     *)
(*                                                                         *)
(* One resolver thread resolves credentials (ApiOptions) from the          *)
(* environment variable and the Google secret manager; a set of tasks own  *)
(* Client values and run capture / capture_batch concurrently on the       *)
(* process-wide HYPER_CLIENT cell.  Strings are sequences of characters,   *)
(* durations are milliseconds.                                             *)
(***************************************************************************)
EXTENDS Integers, Sequences, FiniteSets, TLC

\* ------------------------------------------------------------------ bounds
\* Longest batch handed to capture_batch.
MaxBatch == 2
\* Granularity of the clock, in milliseconds.
TickMs == 1000
\* Latest answer of the transport, in clock ticks.
MaxLatencyTicks == 2
\* The explicit timeout handed to Client::new_with_timeout.
ShortTimeout == 1000

\* --------------------------------------------------------------- constants
TIMEOUT == 2000
API_ENDPOINT == <<"h", "/">>
APT_CAPTURE == <<"c", "/">>
\* An endpoint that, followed by APT_CAPTURE, is no valid URI (it holds a space).
BadEndpoint == <<"h", " ">>

Tasks == {"t1", "t2"}
Never == 0 - 1

\* ------------------------------------------------------------------ strings
IsSpace(c) == c = " "

RECURSIVE TrimStart(_)
TrimStart(s) ==
    IF s = <<>> THEN <<>>
    ELSE IF IsSpace(Head(s)) THEN TrimStart(Tail(s)) ELSE s

RECURSIVE TrimEnd(_)
TrimEnd(s) ==
    IF s = <<>> THEN <<>>
    ELSE IF IsSpace(s[Len(s)]) THEN TrimEnd(SubSeq(s, 1, Len(s) - 1)) ELSE s

\* str::trim
Trim(s) == TrimEnd(TrimStart(s))

\* The `!key.trim().is_empty()` of the two assertions.
KeyAssertion(key) == Trim(key) # <<>>

\* ------------------------------------------------------------------ results
Ok(v) == [kind |-> "ok", val |-> v]
Err(e) == [kind |-> "err", val |-> e]
Panic == [kind |-> "panic", val |-> "assertion failed"]
NoResult == [kind |-> "none", val |-> "none"]

\* ------------------------------------------------------------- credentials
\* ApiOptions::new: any endpoint, any key.
ApiOptionsNew(endpoint, key) == [endpoint |-> endpoint, key |-> key]

\* What std::env::var(POSTHOG_ENV) can find.
EnvValues ==
    { [kind |-> "unset", val |-> <<>>], [kind |-> "notunicode", val |-> <<>>] }
    \cup { [kind |-> "set", val |-> v] : v \in { <<>>, <<" ", " ">>, <<"a", " ">> } }

\* std::env::var
EnvVar(e) ==
    IF e.kind = "unset" THEN Err("NotPresent")
    ELSE IF e.kind = "notunicode" THEN Err("NotUnicode")
    ELSE Ok(e.val)

\* ApiOptions::from_env
from_env(e) ==
    LET key == EnvVar(e) IN
    IF key.kind = "err" THEN key
    ELSE IF ~KeyAssertion(key.val) THEN Panic
    ELSE Ok(ApiOptionsNew(API_ENDPOINT, key.val))

\* What GoogleSecretManager::get_secret can answer: an error, bytes that are
\* no UTF-8, or the bytes of a text.
SecretAnswers ==
    { [kind |-> "error", val |-> <<>>], [kind |-> "notutf8", val |-> <<>>] }
    \cup { [kind |-> "text", val |-> v] : v \in { <<>>, <<" ">>, <<"b">> } }

\* The part of from_google_secret_manager after get_secret has answered.
SecretToOptions(a) ==
    IF a.kind = "error" THEN Err("SecretFetch")
    ELSE IF a.kind = "notutf8" THEN Err("FromUtf8")
    ELSE IF ~KeyAssertion(a.val) THEN Panic
    ELSE Ok(ApiOptionsNew(API_ENDPOINT, a.val))

AutoReturnEnvError(envResult, storeResult) ==
    IF storeResult.kind = "err" THEN envResult ELSE storeResult

\* The inner match of ApiOptions::auto: the secret manager's result as it is.
AutoReturn(envResult, storeResult) == storeResult

AutoFallbackAlways(envResult) == TRUE

\* The outer match of ApiOptions::auto: fall back on Err(_) only.
AutoFallsBack(envResult) == envResult.kind = "err"


\* ------------------------------------------------------------------- events
\* Most property writes made to one event, and the longest list handed to
\* insert_prop_many.
MaxWrites == 3
MaxMany == 2

Keys == {"key1", "key2"}
Values == {"value1", "value1b", "value2"}
Timestamps == {1, 2}
\* The lists handed to insert_prop_many.
PropLists == UNION { [1..n -> Keys \X Values] : n \in 0..MaxMany }

\* Option<chrono::NaiveDateTime>
None == [kind |-> "none"]
Some(t) == [kind |-> "some", val |-> t]

\* HashMap::default()
HashMapDefault == [k \in {} |-> ""]

HashMapInsertKeep(m, key, value) ==
    [k \in DOMAIN m \cup {key} |-> IF k \in DOMAIN m THEN m[k] ELSE value]

\* HashMap::insert: the value of key is value from now on, the other entries stay.
HashMapInsert(m, key, value) ==
    [k \in DOMAIN m \cup {key} |-> IF k = key THEN value ELSE m[k]]

\* Properties::new
PropertiesNew(distinct_id) ==
    [distinct_id |-> distinct_id, properties |-> HashMapDefault]

\* Properties::insert
PropertiesInsert(p, key, value) ==
    [p EXCEPT !.properties = HashMapInsert(@, key, value)]

\* Event::new
EventNew(event, distinct_id) ==
    [event |-> event, properties |-> PropertiesNew(distinct_id), timestamp |-> None]

\* Event::insert_prop
insert_prop(e, key, value) ==
    [e EXCEPT !.properties = PropertiesInsert(@, key, value)]

\* Event::insert_prop_many: the pairs are inserted one by one, first to last.
RECURSIVE insert_prop_many(_, _)
insert_prop_many(e, props) ==
    IF props = <<>> THEN e
    ELSE insert_prop_many(insert_prop(e, Head(props)[1], Head(props)[2]), Tail(props))

set_timestamp_and_clear(e, timestamp) ==
    [e EXCEPT !.timestamp = Some(timestamp),
              !.properties = PropertiesNew(e.properties.distinct_id)]

\* Event::set_timestamp
set_timestamp(e, timestamp) == [e EXCEPT !.timestamp = Some(timestamp)]

InnerEventNewNoTimestamp(event, api_key) ==
    [api_key |-> api_key,
     event |-> event.event,
     properties |-> event.properties,
     timestamp |-> None]

\* InnerEvent::new: the event's fields next to the key.
InnerEventNew(event, api_key) ==
    [api_key |-> api_key,
     event |-> event.event,
     properties |-> event.properties,
     timestamp |-> event.timestamp]

\* The event an InnerEvent was made of.
EventOf(inner) ==
    [event |-> inner.event, properties |-> inner.properties, timestamp |-> inner.timestamp]

\* ---------------------------------------------------------------- encoding
\* JSON text, as serde_json writes it: a string, null, or an object whose
\* members come in the order they were written, <<name, text>> each.
TextString(s) == [t |-> "string", s |-> s]
TextNull == [t |-> "null"]
TextObject(members) == [t |-> "object", members |-> members]

\* A structured JSON value (serde_json::Value): an object has no member order.
JString(s) == [j |-> "string", s |-> s]
JNull == [j |-> "null"]
JObject(f) == [j |-> "object", f |-> f]

\* chrono's Serialize of NaiveDateTime: the date and the time as one string.
FormatTimestamp(t) == <<"T", t>>

\* Serialize of Option<NaiveDateTime>: None is null.
SerializeTimestamp(o) ==
    IF o.kind = "none" THEN TextNull ELSE TextString(FormatTimestamp(o.val))

\* The orders a HashMap may iterate its keys in.
Orders(m) ==
    { o \in [1..Cardinality(DOMAIN m) -> DOMAIN m] :
        \A i, k \in DOMAIN o : o[i] = o[k] => i = k }

\* Serialize of HashMap<String, String>: one member per entry, in the map's order.
SerializeMap(m, order) ==
    TextObject([i \in DOMAIN order |-> <<order[i], TextString(m[order[i]])>>])

\* derive(Serialize) of Properties: the fields in their order of declaration.
SerializeProperties(p, order) ==
    TextObject(<< <<"distinct_id", TextString(p.distinct_id)>>,
                  <<"properties", SerializeMap(p.properties, order)>> >>)

\* serde_json::to_string(&inner_event): derive(Serialize) of InnerEvent.
to_string(inner, order) ==
    TextObject(<< <<"api_key", TextString(inner.api_key)>>,
                  <<"event", TextString(inner.event)>>,
                  <<"properties", SerializeProperties(inner.properties, order)>>,
                  <<"timestamp", SerializeTimestamp(inner.timestamp)>> >>)

\* str::parse::<serde_json::Value>: the text read back; of two members of one
\* name the later one stays.
RECURSIVE Parse(_)
Parse(x) ==
    IF x.t = "null" THEN JNull
    ELSE IF x.t = "string" THEN JString(x.s)
    ELSE LET names == { x.members[i][1] : i \in DOMAIN x.members }
             last(n) == CHOOSE i \in DOMAIN x.members :
                            /\ x.members[i][1] = n
                            /\ \A k \in DOMAIN x.members : x.members[k][1] = n => k <= i
         IN  JObject([n \in names |-> Parse(x.members[last(n)][2])])

\* No event yet, and no text.
NoEvent == [kind |-> "none"]
NoText == [t |-> "none"]

\* The events handed to capture and capture_batch.
Event1 == EventNew("e1", "d1")
Event2 == set_timestamp(insert_prop(EventNew("e2", "d2"), "key1", "value1"), 1)
Events == {Event1, Event2}

\* ---------------------------------------------------------------- transport
\* http::Uri parsing of the request's URL: a space is no URI character.
ValidUri(url) == \A i \in 1..Len(url) : ~IsSpace(url[i])

CaptureUrlDefault(options) == API_ENDPOINT \o APT_CAPTURE

\* format!("{}{}", self.options.endpoint, APT_CAPTURE)
CaptureUrl(options) == options.endpoint \o APT_CAPTURE

\* When the transport answers a request, counted from its dispatch; Never: not at all.
Latencies == { i * TickMs : i \in 1..MaxLatencyTicks } \cup {Never}
\* What the transport answers: an HTTP response, of a success status or of a
\* server error status, or a send error.
Responses == {"response200", "response500"}
Answers == Responses \cup {"senderror"}
\* What an answer is to the delivery of the event: "none" for a response.
CauseOf(answer) == IF answer = "senderror" THEN "send" ELSE "none"

NoReq == [state |-> "none"]
NoClient == [kind |-> "none"]
Timeouts == {ShortTimeout}
\* The batches handed to capture_batch: up to MaxBatch events, two different
\* events taking turns.
Batches == { [i \in 1..n |-> IF i % 2 = 1 THEN Event1 ELSE Event2] : n \in 0..MaxBatch }
Unit == "unit"

Min(a, b) == IF a < b THEN a ELSE b

\* The request future is ready: the transport has answered.
Ready(r) == r.latency # Never /\ r.latency <= r.elapsed

RequestTimeoutDefault(c) == TIMEOUT

\* timeout(self.timeout, future): the deadline is the Client's own timeout.
RequestTimeout(c) == c.timeout

OnAnswerChecksStatus(answer) ==
    IF answer = "response500" THEN Err("Status") ELSE Ok(Unit)

\* capture after `Ok(response) => response`: the response, a Result, is bound to
\* _response and dropped; Ok(()) follows whatever it was.
OnAnswer(answer) == Ok(Unit)

OnElapsedSwallow(timeout) == Ok(Unit)

\* capture on `Err(e)` of tokio's timeout: Err(anyhow!("Error: {}", e)).
OnElapsed(timeout) == Err("Elapsed")

DroppedWithTheOthers(reqs, t) ==
    [u \in Tasks |->
        IF u = t THEN NoReq
        ELSE IF reqs[u].state = "inflight" THEN [reqs[u] EXCEPT !.latency = Never]
        ELSE reqs[u]]

\* capture returns: the request future of this call, moved into its timeout,
\* is dropped; the futures of the other calls are their own.
Dropped(reqs, t) == [reqs EXCEPT ![t] = NoReq]

PermitFreeAlways(holder) == TRUE

\* The one permit of the OnceCell's semaphore is free.
PermitFree(holder) == holder = "none"

NextEventReversed(events, i) == events[Len(events) + 1 - i]

\* `for event in events`: the i-th step of the loop takes the i-th event.
NextEvent(events, i) == events[i]

NextIndexStay(i) == i

\* `for event in events`: the loop moves on to the next event.
NextIndex(i) == i + 1

\* `self.capture(event).await?` leaves the loop on Err and goes on on Ok.
BatchGoesOn(r) == r.kind = "ok"

\* -------------------------------------------------------------------- state
VARIABLES
    env,         \* the value of POSTHOG_API_KEY in the process environment
    rpc,         \* where the resolver thread is
    call,        \* the resolver operation called last
    inAuto,      \* from_google_secret_manager runs inside auto
    envRes,      \* what from_env returned inside the last auto
    storeOut,    \* what the last from_google_secret_manager returned
    storeCalls,  \* from_google_secret_manager calls of the last resolver operation
    res,         \* what the last resolver operation returned
    client,      \* each task's Client
    pc,          \* where each task is
    mode,        \* "capture" or "batch": the operation each task called last
    batch,       \* its events
    idx,         \* the position of the loop of capture_batch
    req,         \* the request each task awaits
    used,        \* the transport instance get_or_init handed to each task
    capRes,      \* what the last capture of each task returned
    result,      \* what the last operation of each task returned
    dispatchLog, \* the requests each task's operation has dispatched, in order:
                 \* the position of the loop and the event of the body
    firstFail,   \* the first position whose delivery failed, with its cause
    initLog,     \* the tasks that ran init_hyper_client, in order
    cell,        \* HYPER_CLIENT: 0 while empty, else the instance it holds
    permit,      \* the holder of the semaphore permit of HYPER_CLIENT
    ev,          \* the Event a caller is building
    writes,      \* the property writes made to ev, in order: <<key, value>>
    lastOp,      \* the operation on ev called last, with its arguments
    wire         \* the JSON text the event was serialized to

resolverVars == <<env, rpc, call, inAuto, envRes, storeOut, storeCalls, res>>
taskVars == <<client, pc, mode, batch, idx, req, used, capRes, result, dispatchLog, firstFail>>
cellVars == <<initLog, cell, permit>>
eventVars == <<ev, writes, lastOp, wire>>
vars == <<resolverVars, taskVars, cellVars, eventVars>>

NoFail == [pos |-> 0, cause |-> "none"]

Init ==
    /\ env \in EnvValues
    /\ rpc = "idle"
    /\ call = "none"
    /\ inAuto = FALSE
    /\ envRes = NoResult
    /\ storeOut = NoResult
    /\ storeCalls = 0
    /\ res = NoResult
    /\ client = [t \in Tasks |-> NoClient]
    /\ pc = [t \in Tasks |-> "idle"]
    /\ mode = [t \in Tasks |-> "none"]
    /\ batch = [t \in Tasks |-> <<>>]
    /\ idx = [t \in Tasks |-> 0]
    /\ req = [t \in Tasks |-> NoReq]
    /\ used = [t \in Tasks |-> 0]
    /\ capRes = [t \in Tasks |-> NoResult]
    /\ result = [t \in Tasks |-> NoResult]
    /\ dispatchLog = [t \in Tasks |-> <<>>]
    /\ firstFail = [t \in Tasks |-> NoFail]
    /\ initLog = <<>>
    /\ cell = 0
    /\ permit = "none"
    /\ ev = NoEvent
    /\ writes = <<>>
    /\ lastOp = [op |-> "none"]
    /\ wire = NoText

\* ----------------------------------------------------------------- resolver
\* A resolver operation returns r (or panics with it).
ResolverReturns(r) ==
    /\ res' = r
    /\ rpc' = IF r.kind = "panic" THEN "aborted" ELSE "idle"

\* ApiOptions::new(endpoint, key)
CallNew(endpoint, key) ==
    /\ rpc = "idle"
    /\ call' = "new"
    /\ ResolverReturns(Ok(ApiOptionsNew(endpoint, key)))
    /\ storeCalls' = 0
    /\ envRes' = NoResult
    /\ storeOut' = NoResult
    /\ UNCHANGED <<env, inAuto, taskVars, cellVars, eventVars>>

\* ApiOptions::from_env()
CallFromEnv ==
    /\ rpc = "idle"
    /\ call' = "from_env"
    /\ ResolverReturns(from_env(env))
    /\ storeCalls' = 0
    /\ envRes' = NoResult
    /\ storeOut' = NoResult
    /\ UNCHANGED <<env, inAuto, taskVars, cellVars, eventVars>>

\* ApiOptions::from_google_secret_manager(project, secret), up to its first await.
CallSecretManager ==
    /\ rpc = "idle"
    /\ call' = "secret_manager"
    /\ rpc' = "gsm_new"
    /\ inAuto' = FALSE
    /\ storeCalls' = 1
    /\ res' = NoResult
    /\ storeOut' = NoResult
    /\ envRes' = NoResult
    /\ UNCHANGED <<env, taskVars, cellVars, eventVars>>

\* ApiOptions::auto(project, secret), up to its first await or its return.
CallAuto ==
    /\ rpc = "idle"
    /\ call' = "auto"
    /\ envRes' = from_env(env)
    /\ storeOut' = NoResult
    /\ IF envRes'.kind = "panic"
       THEN /\ ResolverReturns(envRes')
            /\ storeCalls' = 0
            /\ UNCHANGED inAuto
       ELSE IF AutoFallsBack(envRes')
       THEN /\ rpc' = "gsm_new"
            /\ inAuto' = TRUE
            /\ storeCalls' = 1
            /\ res' = NoResult
       ELSE /\ ResolverReturns(envRes')
            /\ storeCalls' = 0
            /\ UNCHANGED inAuto
    /\ UNCHANGED <<env, taskVars, cellVars, eventVars>>

\* from_google_secret_manager returns r, to its caller or through auto.
SecretManagerReturns(r) ==
    /\ storeOut' = r
    /\ ResolverReturns(IF inAuto /\ r.kind # "panic" THEN AutoReturn(envRes, r) ELSE r)
    /\ UNCHANGED <<env, call, inAuto, envRes, storeCalls, taskVars, cellVars, eventVars>>

\* GoogleSecretManager::new().await?
SecretManagerNew ==
    /\ rpc = "gsm_new"
    /\ \/ /\ rpc' = "gsm_get"
          /\ UNCHANGED <<env, call, inAuto, envRes, storeOut, storeCalls, res,
                         taskVars, cellVars, eventVars>>
       \/ SecretManagerReturns(Err("SecretManagerInit"))

\* get_secret(project, secret).await?, String::from_utf8(key)?, the assertion.
SecretManagerGet(a) ==
    /\ rpc = "gsm_get"
    /\ SecretManagerReturns(SecretToOptions(a))

\* -------------------------------------------------------------------- event
\* Event::new(event, distinct_id)
CallEventNew(event, distinct_id) ==
    /\ lastOp.op = "none"
    /\ ev' = EventNew(event, distinct_id)
    /\ lastOp' = [op |-> "new"]
    /\ UNCHANGED <<writes, wire, resolverVars, taskVars, cellVars>>

\* event.insert_prop(key, value)
CallInsertProp(key, value) ==
    /\ lastOp.op \notin {"none", "serialize"}
    /\ Len(writes) < MaxWrites
    /\ ev' = insert_prop(ev, key, value)
    /\ writes' = Append(writes, <<key, value>>)
    /\ lastOp' = [op |-> "insert_prop", key |-> key, value |-> value]
    /\ UNCHANGED <<wire, resolverVars, taskVars, cellVars>>

\* event.insert_prop_many(props)
CallInsertPropMany(props) ==
    /\ lastOp.op \notin {"none", "serialize"}
    /\ Len(writes) + Len(props) <= MaxWrites
    /\ ev' = insert_prop_many(ev, props)
    /\ writes' = writes \o props
    /\ lastOp' = [op |-> "insert_prop_many", props |-> props]
    /\ UNCHANGED <<wire, resolverVars, taskVars, cellVars>>

\* event.set_timestamp(timestamp)
CallSetTimestamp(timestamp) ==
    /\ lastOp.op \notin {"none", "serialize"}
    /\ ev' = set_timestamp(ev, timestamp)
    /\ lastOp' = [op |-> "set_timestamp", timestamp |-> timestamp]
    /\ UNCHANGED <<writes, wire, resolverVars, taskVars, cellVars>>

\* serde_json::to_string(&InnerEvent::new(event, api_key)): the event is moved
\* into the envelope, the map is written in the order it iterates in.
Serialize(api_key, order) ==
    /\ lastOp.op \notin {"none", "serialize"}
    /\ wire' = to_string(InnerEventNew(ev, api_key), order)
    /\ lastOp' = [op |-> "serialize", api_key |-> api_key]
    /\ UNCHANGED <<ev, writes, resolverVars, taskVars, cellVars>>

\* ------------------------------------------------------------------- client
\* A task's record of its last operation, before it has called any.
FreshTask(t) ==
    /\ mode' = [mode EXCEPT ![t] = "none"]
    /\ batch' = [batch EXCEPT ![t] = <<>>]
    /\ idx' = [idx EXCEPT ![t] = 0]
    /\ used' = [used EXCEPT ![t] = 0]
    /\ capRes' = [capRes EXCEPT ![t] = NoResult]
    /\ result' = [result EXCEPT ![t] = NoResult]
    /\ dispatchLog' = [dispatchLog EXCEPT ![t] = <<>>]
    /\ firstFail' = [firstFail EXCEPT ![t] = NoFail]

\* Client::new(options)
NewClient(t, options) ==
    /\ pc[t] = "idle"
    /\ client' = [client EXCEPT ![t] =
                    [kind |-> "client", options |-> options, timeout |-> TIMEOUT]]
    /\ FreshTask(t)
    /\ UNCHANGED <<pc, req, resolverVars, eventVars, cellVars>>

\* Client::new_with_timeout(options, timeout)
NewClientWithTimeout(t, options, timeout) ==
    /\ pc[t] = "idle"
    /\ client' = [client EXCEPT ![t] =
                    [kind |-> "client", options |-> options, timeout |-> timeout]]
    /\ FreshTask(t)
    /\ UNCHANGED <<pc, req, resolverVars, eventVars, cellVars>>

\* A task calls an operation on its events: its record starts afresh.
StartCall(t, m, events) ==
    /\ mode' = [mode EXCEPT ![t] = m]
    /\ batch' = [batch EXCEPT ![t] = events]
    /\ used' = [used EXCEPT ![t] = 0]
    /\ capRes' = [capRes EXCEPT ![t] = NoResult]
    /\ dispatchLog' = [dispatchLog EXCEPT ![t] = <<>>]
    /\ firstFail' = [firstFail EXCEPT ![t] = NoFail]

\* client.capture(event), up to the await of get_or_init.
CaptureCall(t, event) ==
    /\ pc[t] = "idle"
    /\ client[t].kind = "client"
    /\ StartCall(t, "capture", <<event>>)
    /\ idx' = [idx EXCEPT ![t] = 1]
    /\ result' = [result EXCEPT ![t] = NoResult]
    /\ pc' = [pc EXCEPT ![t] = "get_or_init"]
    /\ UNCHANGED <<client, req, resolverVars, eventVars, cellVars>>

\* client.capture_batch(events), up to the first capture; Ok(()) for no events.
BatchCall(t, events) ==
    /\ pc[t] = "idle"
    /\ client[t].kind = "client"
    /\ StartCall(t, "batch", events)
    /\ IF events = <<>>
       THEN /\ idx' = [idx EXCEPT ![t] = 0]
            /\ result' = [result EXCEPT ![t] = Ok(Unit)]
            /\ UNCHANGED pc
       ELSE /\ idx' = [idx EXCEPT ![t] = 1]
            /\ result' = [result EXCEPT ![t] = NoResult]
            /\ pc' = [pc EXCEPT ![t] = "get_or_init"]
    /\ UNCHANGED <<client, req, resolverVars, eventVars, cellVars>>

\* HYPER_CLIENT.get_or_init, the check of initialized(): the value if there is
\* one, else on to the semaphore.
GetOrInit(t) ==
    /\ pc[t] = "get_or_init"
    /\ IF cell # 0
       THEN /\ used' = [used EXCEPT ![t] = cell]
            /\ pc' = [pc EXCEPT ![t] = "build"]
       ELSE /\ pc' = [pc EXCEPT ![t] = "acquire"]
            /\ UNCHANGED used
    /\ UNCHANGED <<client, mode, batch, idx, req, capRes, result, dispatchLog,
                   firstFail, resolverVars, eventVars, cellVars>>

\* get_or_init, semaphore.acquire().await: the permit, or the value once the
\* semaphore has been closed by the task that set it.
Acquire(t) ==
    /\ pc[t] = "acquire"
    /\ IF cell # 0
       THEN /\ used' = [used EXCEPT ![t] = cell]
            /\ pc' = [pc EXCEPT ![t] = "build"]
            /\ UNCHANGED permit
       ELSE /\ PermitFree(permit)
            /\ permit' = t
            /\ pc' = [pc EXCEPT ![t] = "init"]
            /\ UNCHANGED used
    /\ UNCHANGED <<client, mode, batch, idx, req, capRes, result, dispatchLog,
                   firstFail, resolverVars, eventVars, initLog, cell>>

\* get_or_init, init_hyper_client().await and set_value: a new transport is
\* built and stored, the semaphore is closed.
InitHyperClient(t) ==
    /\ pc[t] = "init"
    /\ initLog' = Append(initLog, t)
    /\ cell' = Len(initLog')
    /\ permit' = "none"
    /\ used' = [used EXCEPT ![t] = cell']
    /\ pc' = [pc EXCEPT ![t] = "build"]
    /\ UNCHANGED <<client, mode, batch, idx, req, capRes, result, dispatchLog,
                   firstFail, resolverVars, eventVars>>

\* capture returns r to its caller: the caller of capture, or the loop of
\* capture_batch, which ends on an error or after the last event.
CaptureReturns(t, r, cause) ==
    /\ capRes' = [capRes EXCEPT ![t] = r]
    /\ req' = Dropped(req, t)
    /\ firstFail' = [firstFail EXCEPT ![t] =
                       IF @.pos = 0 /\ cause # "none"
                       THEN [pos |-> idx[t], cause |-> cause] ELSE @]
    /\ IF mode[t] = "capture"
       THEN /\ result' = [result EXCEPT ![t] = r]
            /\ pc' = [pc EXCEPT ![t] = "idle"]
            /\ UNCHANGED idx
       ELSE IF ~BatchGoesOn(r)
       THEN /\ result' = [result EXCEPT ![t] = r]
            /\ pc' = [pc EXCEPT ![t] = "idle"]
            /\ UNCHANGED idx
       ELSE IF NextIndex(idx[t]) > Len(batch[t])
       THEN /\ result' = [result EXCEPT ![t] = Ok(Unit)]
            /\ pc' = [pc EXCEPT ![t] = "idle"]
            /\ UNCHANGED idx
       ELSE /\ idx' = [idx EXCEPT ![t] = NextIndex(@)]
            /\ pc' = [pc EXCEPT ![t] = "get_or_init"]
            /\ UNCHANGED result
    /\ UNCHANGED <<client, mode, batch, used, resolverVars, eventVars, cellVars>>

\* capture, the request builder: an invalid URL ends capture with the builder's
\* error and nothing is sent.
BuildFails(t) ==
    /\ pc[t] = "build"
    /\ ~ValidUri(CaptureUrl(client[t].options))
    /\ CaptureReturns(t, Err("InvalidUri"), "build")
    /\ UNCHANGED dispatchLog

\* capture, client.request(request): the request is handed to the transport,
\* which will answer it after some latency, or never.
Dispatch(t, latency) ==
    /\ pc[t] = "build"
    /\ ValidUri(CaptureUrl(client[t].options))
    /\ LET inner_event == InnerEventNew(NextEvent(batch[t], idx[t]), client[t].options.key)
       IN  /\ \E order \in Orders(inner_event.properties.properties) :
                req' = [req EXCEPT ![t] =
                          [state |-> "inflight",
                           method |-> "POST",
                           url |-> CaptureUrl(client[t].options),
                           content_type |-> "application/json",
                           body |-> to_string(inner_event, order),
                           via |-> used[t],
                           timeout |-> RequestTimeout(client[t]),
                           latency |-> latency,
                           elapsed |-> 0]]
           /\ dispatchLog' = [dispatchLog EXCEPT ![t] =
                                 Append(@, [pos |-> idx[t], event |-> EventOf(inner_event)])]
    /\ pc' = [pc EXCEPT ![t] = "inflight"]
    /\ UNCHANGED <<client, mode, batch, idx, used, capRes, result, firstFail,
                   resolverVars, eventVars, cellVars>>

\* Time passes for a request that is neither answered nor past its deadline;
\* the timer wakes the task at the deadline at the latest.
Tick(t) ==
    /\ pc[t] = "inflight"
    /\ ~Ready(req[t])
    /\ req[t].elapsed < req[t].timeout
    /\ req' = [req EXCEPT ![t].elapsed = Min(@ + TickMs, req[t].timeout)]
    /\ UNCHANGED <<client, pc, mode, batch, idx, used, capRes, result, dispatchLog,
                   firstFail, resolverVars, eventVars, cellVars>>

\* timeout(..).await is Ok(response): the transport answered, with a response or
\* with a send error; the request future is polled before the timer.
Complete(t, answer) ==
    /\ pc[t] = "inflight"
    /\ Ready(req[t])
    /\ CaptureReturns(t, OnAnswer(answer), CauseOf(answer))
    /\ UNCHANGED dispatchLog

\* timeout(..).await is Err(Elapsed): the deadline passed with no answer.
Expire(t) ==
    /\ pc[t] = "inflight"
    /\ ~Ready(req[t])
    /\ req[t].elapsed >= req[t].timeout
    /\ CaptureReturns(t, OnElapsed(req[t].timeout), "timeout")
    /\ UNCHANGED dispatchLog

\* ------------------------------------------------------------ the programs
\* The resolver program: credentials are resolved by any of the four
\* constructors and Clients are made of the options they return.
NextResolver ==
    \/ \E endpoint \in {API_ENDPOINT, BadEndpoint}, key \in { <<>>, <<"c">> } :
          CallNew(endpoint, key)
    \/ CallFromEnv
    \/ CallSecretManager
    \/ CallAuto
    \/ SecretManagerNew
    \/ \E a \in SecretAnswers : SecretManagerGet(a)
    \/ \E t \in Tasks : res.kind = "ok" /\ NewClient(t, res.val)
    \/ \E t \in Tasks, timeout \in Timeouts :
          res.kind = "ok" /\ NewClientWithTimeout(t, res.val, timeout)

ResolverSpec == Init /\ [][NextResolver]_vars

\* The options the capture program makes its Clients of: what from_env returns
\* for a key in the environment, what the secret manager returns for a secret,
\* and options of ApiOptions::new with an endpoint that is no URI.
EnvOptions == from_env([kind |-> "set", val |-> <<"a", " ">>]).val
SecretOptions == SecretToOptions([kind |-> "text", val |-> <<"b">>]).val
BadOptions == ApiOptionsNew(BadEndpoint, <<"c">>)

\* The capture program: every task makes itself one Client and calls capture
\* and capture_batch on it, concurrently with the other tasks.
InitCapture ==
    /\ Init
    /\ env.kind = "unset"

Next ==
    \/ \E t \in Tasks, options \in {EnvOptions, BadOptions} :
          client[t].kind = "none" /\ NewClient(t, options)
    \/ \E t \in Tasks, timeout \in Timeouts :
          client[t].kind = "none" /\ NewClientWithTimeout(t, SecretOptions, timeout)
    \/ \E t \in Tasks, event \in Events : CaptureCall(t, event)
    \/ \E t \in Tasks, events \in Batches : BatchCall(t, events)
    \/ \E t \in Tasks : GetOrInit(t)
    \/ \E t \in Tasks : Acquire(t)
    \/ \E t \in Tasks : InitHyperClient(t)
    \/ \E t \in Tasks : BuildFails(t)
    \/ \E t \in Tasks, latency \in Latencies : Dispatch(t, latency)
    \/ \E t \in Tasks : Tick(t)
    \/ \E t \in Tasks, answer \in Answers : Complete(t, answer)
    \/ \E t \in Tasks : Expire(t)

Spec == InitCapture /\ [][Next]_vars

\* The timer of tokio's timeout keeps running and wakes the awaiting task.
FairSpec == Spec /\ \A t \in Tasks : WF_vars(Tick(t)) /\ WF_vars(Expire(t))

\* The event program: a caller builds one event by any sequence of its
\* operations and has it serialized into the envelope.
EventNames == {"event"}
DistinctIds == {"distinct_id"}
ApiKeys == {"api_key"}

NextEventOps ==
    \/ \E event \in EventNames, distinct_id \in DistinctIds :
          CallEventNew(event, distinct_id)
    \/ \E key \in Keys, value \in Values : CallInsertProp(key, value)
    \/ \E props \in PropLists : CallInsertPropMany(props)
    \/ \E timestamp \in Timestamps : CallSetTimestamp(timestamp)
    \/ /\ lastOp.op # "none"
       /\ \E api_key \in ApiKeys, order \in Orders(ev.properties.properties) :
             Serialize(api_key, order)

EventSpec == InitCapture /\ [][NextEventOps]_vars

\* =============================================================== properties
Finished(t) == pc[t] = "idle" /\ result[t] # NoResult
EnvBlank == env.kind = "set" /\ Trim(env.val) = <<>>
ResolverDone == rpc \in {"idle", "aborted"}

\* C1: a capture whose request ends with a send error before the timeout
\* returns an error to its caller, never success.
C1_SendErrorFails ==
    \A t \in Tasks :
        (mode[t] = "capture" /\ Finished(t) /\ firstFail[t].cause = "send")
            => result[t].kind = "err"

\* C2: capture_batch stops at the first failure: if the delivery of the k-th
\* event is the first to fail (its send fails or it times out), capture_batch
\* returns an error, k requests have been dispatched and none after position k.
C2_BatchStopsAtFirstFailure ==
    \A t \in Tasks :
        (mode[t] = "batch" /\ Finished(t) /\ firstFail[t].cause \in {"send", "timeout"})
            => /\ result[t].kind = "err"
               /\ Len(dispatchLog[t]) = firstFail[t].pos
               /\ \A i \in 1..Len(dispatchLog[t]) : dispatchLog[t][i].pos <= firstFail[t].pos

\* The transport does not answer the request a task awaits within its timeout.
Late(t) ==
    /\ pc[t] = "inflight"
    /\ req[t].latency = Never \/ req[t].latency > req[t].timeout

\* C3: a capture against a transport that does not answer within the client's
\* timeout eventually returns, what it returns is the timeout error, it never
\* returns success, and it never waits past the timeout.
C3_TimeoutEnforced ==
    /\ \A t \in Tasks : Late(t) ~> (pc[t] # "inflight" /\ capRes[t] = Err("Elapsed"))
    /\ [][\A t \in Tasks :
            /\ (Late(t) /\ pc'[t] # "inflight") => capRes'[t] = Err("Elapsed")
            /\ (Late(t) /\ pc'[t] = "inflight") => req'[t].elapsed <= req[t].timeout]_vars

C3_Witness ==
    \E t \in Tasks :
        /\ mode[t] = "capture" /\ Finished(t)
        /\ firstFail[t].cause = "timeout"
        /\ result[t] = Err("Elapsed")

\* C4: with a blank value in the environment variable, auto goes on to the
\* secret manager, as for an unset variable, and returns what it returns.
C4_BlankEnvFallsBack ==
    (call = "auto" /\ EnvBlank)
        => /\ storeCalls = 1
           /\ ResolverDone => res = storeOut

\* C5: no operation panics or aborts: every call ends by returning a value.
C5_NoAbort == rpc # "aborted" /\ res.kind # "panic"

\* C6: with the environment variable unset, auto calls the secret manager
\* exactly once and ends with exactly its outcome, never with the error of the
\* absent variable.
C6_UnsetFallsBack ==
    (call = "auto" /\ env.kind = "unset")
        => /\ storeCalls = 1
           /\ envRes = Err("NotPresent")
           /\ ResolverDone => (res = storeOut /\ res # envRes)

C6_Witness ==
    /\ call = "auto" /\ env.kind = "unset" /\ rpc = "idle"
    /\ res = Err("SecretFetch")
    /\ storeOut = res

\* C7: with a non-blank value in the environment variable, auto returns the
\* options of that value and the default endpoint, and the secret manager is
\* not called.
C7_EnvWins ==
    (call = "auto" /\ env.kind = "set" /\ ~EnvBlank)
        => /\ res = Ok([endpoint |-> API_ENDPOINT, key |-> env.val])
           /\ rpc = "idle"
           /\ storeCalls = 0
           /\ storeOut = NoResult

C7_Witness ==
    /\ call = "auto" /\ env.kind = "set" /\ ~EnvBlank
    /\ res.kind = "ok" /\ res.val.key = <<"a", " ">>
    /\ \E t \in Tasks : client[t].kind = "client" /\ client[t].options = res.val

\* C8: init_hyper_client runs at most once, whatever the interleaving of first
\* captures; every capture of every Client uses the one instance the cell
\* holds; making a Client does not initialise the cell.
C8_InitOnce ==
    /\ Len(initLog) <= 1
    /\ cell = Len(initLog)
    /\ \A t \in Tasks :
          /\ used[t] # 0 => used[t] = cell
          /\ pc[t] \in {"build", "inflight"} => used[t] = 1
          /\ pc[t] = "inflight" => req[t].via = 1
    /\ (\A t \in Tasks : mode[t] = "none") => cell = 0

C8_Witness ==
    /\ \A t \in Tasks : pc[t] = "inflight" /\ req[t].via = 1
    /\ \E t \in Tasks, u \in Tasks : client[t] # client[u]

\* C9: capture_batch dispatches in the order of its list, one request at a
\* time: the i-th request is that of the i-th event, and it is dispatched only
\* when the captures of all events before it have returned.
C9_Sequential ==
    \A t \in Tasks :
        mode[t] = "batch" =>
            /\ \A i \in 1..Len(dispatchLog[t]) :
                  /\ dispatchLog[t][i].pos = i
                  /\ i <= Len(batch[t])
                  /\ dispatchLog[t][i].event = batch[t][i]
            /\ Len(dispatchLog[t]) <= idx[t]
            /\ pc[t] = "inflight" => Len(dispatchLog[t]) = idx[t]
            /\ pc[t] \in {"get_or_init", "acquire", "init", "build"}
                  => Len(dispatchLog[t]) = idx[t] - 1

C9_Witness ==
    \E t \in Tasks :
        /\ mode[t] = "batch" /\ pc[t] = "inflight"
        /\ Len(dispatchLog[t]) >= 2
        /\ Len(dispatchLog[t]) = Len(batch[t])
        /\ batch[t][1] # batch[t][2]

\* C10: a capture issues at most one request, whatever its outcome, and
\* capture_batch at most one request per event; nothing is sent again.
C10_AtMostOnce ==
    \A t \in Tasks :
        /\ mode[t] = "capture" => Len(dispatchLog[t]) <= 1
        /\ Len(dispatchLog[t]) <= Len(batch[t])
        /\ \A i \in 1..Len(dispatchLog[t]), j \in 1..Len(dispatchLog[t]) :
              i # j => dispatchLog[t][i].pos # dispatchLog[t][j].pos

C10_Witness ==
    \E t \in Tasks :
        /\ mode[t] = "batch" /\ Finished(t)
        /\ result[t] = Err("Elapsed")
        /\ firstFail[t].cause = "send"
        /\ Len(dispatchLog[t]) = Len(batch[t])
        /\ Len(batch[t]) >= 2

\* C11: every ApiOptions a constructor or resolver has returned, and so every
\* key a Client holds, has a key that is not empty after trimming.
C11_KeyNotBlank ==
    /\ res.kind = "ok" => KeyAssertion(res.val.key)
    /\ \A t \in Tasks : client[t].kind = "client" => KeyAssertion(client[t].options.key)

\* The last write made to key k.
LastWrite(k) ==
    CHOOSE i \in DOMAIN writes :
        /\ writes[i][1] = k
        /\ \A n \in DOMAIN writes : writes[n][1] = k => n <= i

\* C12: after any sequence of insert_prop and insert_prop_many the event holds
\* exactly the keys written, each with the value of the last write made to it.
C12_LastWriteWins ==
    lastOp.op # "none" =>
        LET m == ev.properties.properties
        IN  /\ DOMAIN m = { writes[i][1] : i \in DOMAIN writes }
            /\ \A k \in DOMAIN m : m[k] = writes[LastWrite(k)][2]

\* key1=value1, then the list (key1, value1b), (key2, value2).
C12_Witness ==
    /\ lastOp.op = "insert_prop_many"
    /\ lastOp.props = << <<"key1", "value1b">>, <<"key2", "value2">> >>
    /\ writes = << <<"key1", "value1">> >> \o lastOp.props
    /\ DOMAIN ev.properties.properties = {"key1", "key2"}
    /\ ev.properties.properties["key1"] = "value1b"
    /\ ev.properties.properties["key2"] = "value2"

\* The envelope of event e and key api_key, as a structured value.
Envelope(e, api_key) ==
    JObject([api_key |-> JString(api_key),
             event |-> JString(e.event),
             properties |->
                 JObject([distinct_id |-> JString(e.properties.distinct_id),
                          properties |->
                              JObject([k \in DOMAIN e.properties.properties |->
                                          JString(e.properties.properties[k])])]),
             timestamp |-> IF e.timestamp = None THEN JNull
                           ELSE JString(FormatTimestamp(e.timestamp.val))])

\* C13: the text an event is serialized to, read back as a structured value, is
\* the envelope of the key, the name, the distinct id, the properties and the
\* timestamp of the event, the timestamp null when the event has none.
C13_Envelope ==
    lastOp.op = "serialize" => Parse(wire) = Envelope(ev, lastOp.api_key)

C13_Witness ==
    /\ lastOp.op = "serialize"
    /\ ev.timestamp = None
    /\ Cardinality(DOMAIN ev.properties.properties) = 2
    /\ Parse(wire).f["timestamp"] = JNull
    /\ wire.members[3][2].members[2][2].members[1][1] = "key2"

\* C17: insert_prop, insert_prop_many and set_timestamp leave the name and the
\* distinct id of the event as they are; insert_prop changes the given key
\* only, insert_prop_many the keys of its list only, set_timestamp the
\* timestamp only.
C17_EventFrame ==
    [][lastOp'.op \in {"insert_prop", "insert_prop_many", "set_timestamp"} =>
          LET m == ev.properties.properties
              n == ev'.properties.properties
              Kept(ks) == \A k \in ks : /\ k \in DOMAIN n <=> k \in DOMAIN m
                                        /\ k \in DOMAIN m => n[k] = m[k]
          IN  /\ ev'.event = ev.event
              /\ ev'.properties.distinct_id = ev.properties.distinct_id
              /\ lastOp'.op = "insert_prop" =>
                    /\ ev'.timestamp = ev.timestamp
                    /\ Kept(Keys \ {lastOp'.key})
                    /\ n[lastOp'.key] = lastOp'.value
              /\ lastOp'.op = "insert_prop_many" =>
                    /\ ev'.timestamp = ev.timestamp
                    /\ Kept(Keys \ { lastOp'.props[i][1] : i \in DOMAIN lastOp'.props })
              /\ lastOp'.op = "set_timestamp" =>
                    /\ ev'.timestamp = Some(lastOp'.timestamp)
                    /\ ev'.properties = ev.properties]_vars

C17_Witness ==
    /\ lastOp.op = "set_timestamp"
    /\ ev.timestamp = Some(lastOp.timestamp)
    /\ ev.event \in EventNames
    /\ Cardinality(DOMAIN ev.properties.properties) = 2

\* C14: a Client at rest offers an operation that sets its timeout to any other
\* duration and leaves its endpoint and key as they are.
C14_SetTimeoutOffered ==
    \A t \in Tasks, d \in Timeouts \cup {TIMEOUT} :
        (client[t].kind = "client" /\ pc[t] = "idle" /\ d # client[t].timeout) =>
            ENABLED (/\ Next
                     /\ client'[t].timeout = d
                     /\ client'[t].options = client[t].options)

\* C15: a capture whose request the transport answers with an HTTP response
\* before the timeout returns success, whatever the status of the response.
C15_AnyResponseSucceeds ==
    [][\A t \in Tasks, answer \in Responses :
          Complete(t, answer) => capRes'[t] = Ok(Unit)]_vars

\* A capture has dispatched its request, got a response and returned success.
C15_Witness ==
    \E t \in Tasks :
        /\ mode[t] = "capture"
        /\ Finished(t)
        /\ Len(dispatchLog[t]) = 1
        /\ firstFail[t] = NoFail
        /\ result[t] = Ok(Unit)

\* C16: no step of capture or capture_batch changes the endpoint, the key or
\* the timeout of a Client or consults the environment or the secret manager,
\* and every request is dispatched with the timeout, the endpoint and the key
\* its Client was constructed with.
C16_CredentialsFixed ==
    [][/\ \A t \in Tasks :
             /\ client[t].kind = "client" => client'[t] = client[t]
             /\ pc'[t] = "inflight" =>
                   /\ req'[t].timeout = client'[t].timeout
                   /\ req'[t].url = client'[t].options.endpoint \o APT_CAPTURE
                   /\ Parse(req'[t].body).f["api_key"] = JString(client'[t].options.key)
       /\ UNCHANGED resolverVars]_vars

\* The second capture of a batch is in flight with the timeout its Client was
\* given at construction, after the first one has returned.
C16_Witness ==
    \E t \in Tasks :
        /\ client[t] = [kind |-> "client", options |-> SecretOptions, timeout |-> ShortTimeout]
        /\ mode[t] = "batch"
        /\ idx[t] = 2
        /\ pc[t] = "inflight"
        /\ req[t].timeout = ShortTimeout

\* A task that waits can go on whatever the other tasks do: a request in flight
\* can be answered, time out or see time pass, and a task waiting for the
\* permit of HYPER_CLIENT waits for a task that is building the transport.
NotBlocked(t) ==
    /\ pc[t] = "inflight" =>
          ENABLED (Tick(t) \/ Expire(t) \/ \E answer \in Answers : Complete(t, answer))
    /\ pc[t] = "acquire" =>
          cell # 0 \/ PermitFree(permit) \/ \E u \in Tasks \ {t} : pc[u] = "init"

\* C18: concurrent captures are independent: a step of one task leaves the
\* position, the request and the results of every other task as they are; a
\* request in flight keeps its latency, timeout and body until its own capture
\* returns; that capture returns Err(Elapsed) exactly if its own request was
\* not answered within its own timeout; and no task is blocked by another.
C18_Independent ==
    [][/\ \A t \in Tasks, u \in Tasks :
             (t # u /\ (pc'[t] # pc[t] \/ req'[t] # req[t] \/ capRes'[t] # capRes[t])) =>
                 /\ pc'[u] = pc[u]
                 /\ req'[u] = req[u]
                 /\ capRes'[u] = capRes[u]
                 /\ result'[u] = result[u]
       /\ \A t \in Tasks :
             /\ NotBlocked(t)
             /\ (pc[t] = "inflight" /\ pc'[t] = "inflight") =>
                   /\ req'[t].latency = req[t].latency
                   /\ req'[t].timeout = req[t].timeout
                   /\ req'[t].body = req[t].body
                   /\ req'[t].elapsed >= req[t].elapsed
             /\ (pc[t] = "inflight" /\ pc'[t] # "inflight") =>
                   capRes'[t] = IF Ready(req[t]) THEN Ok(Unit) ELSE Err("Elapsed")]_vars

\* One capture has timed out while the request of another task, dispatched
\* through the same transport, is still in flight and about to be answered.
C18_Witness ==
    \E t \in Tasks, u \in Tasks :
        /\ t # u
        /\ Finished(t)
        /\ result[t] = Err("Elapsed")
        /\ pc[u] = "inflight"
        /\ req[u].elapsed > 0
        /\ Ready(req[u])
        /\ req[u].via = used[t]

\* C19: every request in flight is a POST to the endpoint of the Client it was
\* called on followed by "capture/", and its body, read back, is the envelope
\* of that Client's key and of the event handed to that call.
C19_OwnCredentials ==
    \A t \in Tasks :
        pc[t] = "inflight" =>
            /\ req[t].method = "POST"
            /\ req[t].content_type = "application/json"
            /\ req[t].url = client[t].options.endpoint \o APT_CAPTURE
            /\ Parse(req[t].body) = Envelope(batch[t][idx[t]], client[t].options.key)

\* Two Clients of different keys have a request in flight each, through the
\* one transport, for different events.
C19_Witness ==
    \E t \in Tasks, u \in Tasks :
        /\ pc[t] = "inflight"
        /\ pc[u] = "inflight"
        /\ req[t].via = req[u].via
        /\ client[t].options.key # client[u].options.key
        /\ batch[t][idx[t]] # batch[u][idx[u]]
        /\ Parse(req[t].body).f["api_key"] = JString(client[t].options.key)
        /\ Parse(req[u].body).f["api_key"] = JString(client[u].options.key)

====
